---- MODULE Spec2Model ----
(***************************************************************************)
(* Model of vaultwarden-proxy (src/app.py): a Flask service that reports   *)
(* aggregate statistics of a Vaultwarden server.  The module-level dict    *)
(* _stats_cache holds a cached admin session (session_cookie,              *)
(* cookie_expiry) and a cached statistics snapshot (stats, last_fetch).    *)
(* Requests are served by threads that share the dict without a lock; one  *)
(* action models one access to the shared dict together with the local     *)
(* computation that follows it.                                            *)
(***************************************************************************)
EXTENDS Integers, Sequences, FiniteSets, TLC

\* ------------------------------------------------------------------ bounds
NumThreads == 2
MaxTime == 3900
MaxConcTime == 300

\* ------------------------------------------------- program constants
CACHE_TIMEOUT == 300
SESSION_TTL == 3600
THIRTY_DAYS == 2592000

Threads == 1..NumThreads

\* The readings of the wall clock, in seconds since the service started:
\* inside the first statistics window, at its end, and the same around the
\* end of the first session window.
TimePoints ==
    {p \in {0, CACHE_TIMEOUT \div 2, CACHE_TIMEOUT,
            SESSION_TTL, SESSION_TTL + CACHE_TIMEOUT \div 2,
            SESSION_TTL + CACHE_TIMEOUT} : p <= MaxTime}

\* --------------------------------------------------------- Python values
NoneVal == [type |-> "None"]

\* len() of a dict modelled as a record with a "type" tag
DictLen(d) == Cardinality(DOMAIN d \ {"type"})

\* Python truth value of the values the program tests with `if`, `and`,
\* `or`, `not`
Truthy(v) ==
    CASE v.type = "None" -> FALSE
      [] v.type = "absent" -> FALSE
      [] v.type = "int" -> v.val # 0
      [] v.type = "str" -> v.len > 0
      [] v.type = "jar" -> v.names # {}
      [] v.type = "dict" -> DictLen(v) > 0
      [] OTHER -> TRUE

\* The cookies of an authentication response, as given by
\* cookies.get_dict(): the cookie names and, for VW_ADMIN, its value (the
\* login it was issued for)
Jar(names, tok) == [type |-> "jar", names |-> names, tok |-> tok]

\* ------------------------------------------------------- upstream answers
TransportError == [status |-> 0, names |-> {}]

AuthResponses ==
    {[status |-> s, names |-> n] :
        s \in {200, 302}, n \in {{}, {"other"}, {"VW_ADMIN"}}}
    \cup {[status |-> s, names |-> {}] : s \in {401, 403}}
    \cup {TransportError}

\* ------------------------------------------------------- user records
Absent == [type |-> "absent"]
IntV(n) == [type |-> "int", val |-> n]

\* A timestamp text: the wall-clock reading `wall` (seconds) written as
\* date, separator, time, followed by a suffix.  good = FALSE is a text
\* that holds no date at all ("not-a-date").
TimeStr(good, wall, sep, suffix) ==
    [type |-> "str", len |-> 19 + Len(suffix), good |-> good,
     wall |-> wall, sep |-> sep, suffix |-> suffix]
\* A text that is not a number, in an item-count field
TextV == [type |-> "str", len |-> 3, good |-> FALSE, wall |-> 0,
          sep |-> " ", suffix |-> <<"a", "b", "c">>]

User(la, la2, cc, cc2, ic) ==
    [lastActive |-> la, _LastActive |-> la2,
     CipherCount |-> cc, cipher_count |-> cc2, items_count |-> ic]

\* Suffixes of the timestamp texts: " +08", none
SufPlus08 == <<" ", "+", "0", "8">>
SufNone == <<>>

\* Wall-clock readings of the records relative to the epoch of the model
\* clock (clock = 0): 5 days before, and 30 days before plus half a window
Recent == 0 - 5 * 86400
Edge == (0 - THIRTY_DAYS) + CACHE_TIMEOUT \div 2
Old == 0 - 40 * 86400

uActive == User(TimeStr(TRUE, Recent, " ", SufPlus08), Absent, IntV(2), Absent, Absent)
uEdge == User(Absent, TimeStr(TRUE, Edge, " ", SufNone), Absent, IntV(1), Absent)
uOld == User(TimeStr(TRUE, Old, " ", SufPlus08), Absent, Absent, Absent, Absent)
uBadCount == User(Absent, Absent, TextV, Absent, Absent)

\* The user lists the upstream may answer with
UserLists ==
    { <<>>, <<uActive>>, <<uEdge, uOld>>, <<uBadCount>> }

\* More timestamp texts: the ISO-8601 form "2024-01-27T00:00:00Z", the
\* space-delimited form with the offset " +08" whose instant is `Recent`, a
\* text that is no date, the empty text, and a number where a text belongs
SufZ == <<"Z">>
tsRecent == TimeStr(TRUE, Recent + 8 * 3600, " ", SufPlus08)
tsEdge == TimeStr(TRUE, Edge, " ", SufNone)
tsOld == TimeStr(TRUE, Old, " ", SufPlus08)
tsIsoZ == TimeStr(TRUE, Recent, "T", SufZ)
tsNoDate == TimeStr(FALSE, 0, " ", SufNone)
EmptyText == [type |-> "str", len |-> 0, good |-> FALSE, wall |-> 0,
              sep |-> " ", suffix |-> <<>>]

\* The user records of the derivation: every combination of these field
\* values
DeriveUsers ==
    {User(la, la2, cc, cc2, ic) :
        la \in {Absent, tsRecent, tsEdge, tsOld, tsIsoZ, tsNoDate, EmptyText, IntV(5)},
        la2 \in {Absent, tsRecent},
        cc \in {Absent, IntV(0), IntV(2), TextV},
        cc2 \in {Absent, IntV(1)},
        ic \in {Absent, IntV(3)}}

\* The user lists of the derivation: none, one record, or a record followed
\* by one with a parsable timestamp
DeriveUserLists ==
    {<<>>} \cup {<<u>> : u \in DeriveUsers}
           \cup {<<u, v>> : u \in DeriveUsers, v \in {uActive, uEdge}}

\* The ways the user-list request fails: raise_for_status() on an error
\* status, or no answer (connection error, timeout)
ListFailures == {"http_error", "transport"}

\* The answers to the diagnostics request: status 200 with a JSON body,
\* another status, or an exception (no answer, or a body that is no JSON)
DiagAnswers == {"ok", "http_error", "exception"}

\* ------------------------------------------------------- deriving statistics
\* dict.get(key, default): the default when the record has no such field
Get(user, key, default) == IF user[key] = Absent THEN default ELSE user[key]

\* Python `a or b`
Or(a, b) == IF Truthy(a) THEN a ELSE b

\* s.split('+')[0] applied to the suffix of a timestamp text (date and time
\* hold no '+')
RECURSIVE UpToPlus(_)
UpToPlus(s) ==
    IF s = <<>> \/ Head(s) = "+" THEN <<>>
    ELSE <<Head(s)>> \o UpToPlus(Tail(s))

\* str.strip() applied to the same suffix (the text starts with a digit, so
\* only trailing blanks are removed)
RECURSIVE Strip(_)
Strip(s) ==
    IF s # <<>> /\ s[Len(s)] = " " THEN Strip(SubSeq(s, 1, Len(s) - 1))
    ELSE s

\* A slip: `>=` for `>`
LastActiveCheck_Inclusive(last_active, thirty_days_ago) ==
    IF last_active.type # "str" THEN "AttributeError"
    ELSE LET rest == Strip(UpToPlus(last_active.suffix))
         IN  IF ~last_active.good \/ last_active.sep # " " \/ rest # <<>>
                THEN "ValueError"
             ELSE IF last_active.wall >= thirty_days_ago THEN "counted"
             ELSE "not_counted"

\* The try block of the loop: "counted" when the parsed time is
\* after thirty_days_ago, "ValueError" / "AttributeError" when the except
\* clause swallows the failure
LastActiveCheck(last_active, thirty_days_ago) ==
    IF last_active.type # "str" THEN "AttributeError"
    ELSE LET rest == Strip(UpToPlus(last_active.suffix))
         IN  IF ~last_active.good \/ last_active.sep # " " \/ rest # <<>>
                THEN "ValueError"
             ELSE IF last_active.wall > thirty_days_ago THEN "counted"
             ELSE "not_counted"

\* Does this record add one to active_users?
IsActive(user, thirty_days_ago) ==
    LET last_active == Or(Get(user, "lastActive", NoneVal),
                          Get(user, "_LastActive", NoneVal))
    IN  /\ Truthy(last_active)
        /\ LastActiveCheck(last_active, thirty_days_ago) = "counted"

\* A slip: the three names tried in the opposite order
CipherCountOf_ItemsFirst(user) ==
    Or(Or(Get(user, "items_count", IntV(0)), Get(user, "cipher_count", IntV(0))),
       Get(user, "CipherCount", IntV(0)))

\* The value added to total_items for this record
CipherCountOf(user) ==
    Or(Or(Get(user, "CipherCount", IntV(0)), Get(user, "cipher_count", IntV(0))),
       Get(user, "items_count", IntV(0)))

\* The loop over users_data: acc holds active_users, total_items and the
\* exception that ended the loop ("none" while it runs)
RECURSIVE DeriveLoop(_, _, _)
DeriveLoop(users_data, thirty_days_ago, acc) ==
    IF users_data = <<>> \/ acc.exc # "none" THEN acc
    ELSE LET user == Head(users_data)
             active == IF IsActive(user, thirty_days_ago)
                          THEN acc.active_users + 1 ELSE acc.active_users
             cipher_count == CipherCountOf(user)
         IN  IF cipher_count.type # "int"
                THEN [acc EXCEPT !.active_users = active, !.exc = "TypeError"]
             ELSE DeriveLoop(Tail(users_data), thirty_days_ago,
                             [active_users |-> active,
                              total_items |-> acc.total_items + cipher_count.val,
                              exc |-> "none"])

\* The statistics computed from a fetched user list at time utcnow: the
\* result dict, or the exception that escapes the loop
Derive(users_data, utcnow) ==
    LET acc == DeriveLoop(users_data, utcnow - THIRTY_DAYS,
                          [active_users |-> 0, total_items |-> 0, exc |-> "none"])
    IN  [exc |-> acc.exc,
         result |-> [type |-> "dict",
                     total_users |-> Len(users_data),
                     active_users |-> acc.active_users,
                     total_items |-> acc.total_items,
                     logins |-> 0, notes |-> 0, cards |-> 0, identities |-> 0]]

\* ------------------------------------------------------- results of a call
Returned(value) == [kind |-> "ok", value |-> value]
Raised(exc, msg, status) ==
    [kind |-> "raise", exc |-> exc, msg |-> msg, status |-> status]
NoReturn == [kind |-> "none"]
\* stats() answered 500 by itself because ADMIN_TOKEN is not set
RouteConfigError == [kind |-> "route", msg |-> "ADMIN_TOKEN environment variable is required"]

\* A slip: the route answers 200 whatever the outcome
StatsResponse_AlwaysOk(r) ==
    [code |-> 200, body |-> IF r.kind = "ok" THEN r.value ELSE r.msg]

\* The HTTP answer of the stats route for an outcome of the call
StatsResponse(r) ==
    IF r.kind = "ok" THEN [code |-> 200, body |-> r.value]
    ELSE [code |-> 500, body |-> r.msg]

\* ------------------------------------------------------------------ state
VARIABLES
    clock,          \* time.time() / datetime.utcnow(), in seconds
    ADMIN_TOKEN,    \* is the ADMIN_TOKEN environment variable set?
    _stats_cache,   \* the shared dict: stats, last_fetch, session_cookie, cookie_expiry
    pc,             \* per thread: the place it has reached in the request
    via,            \* per thread: "route" (GET /stats) or "direct" (get_vaultwarden_stats())
    now,            \* per thread: `now` of get_vaultwarden_stats
    session_now,    \* per thread: `now` of get_admin_session (-1 before it is read)
    cookies,        \* per thread: `session_cookie` / `cookies`, the credential in hand
    users_data,     \* per thread: the user list fetched (None before)
    utcnow,         \* per thread: the datetime.utcnow() reading of the derivation
    ret,            \* per thread: what the call returned or raised
    http,           \* per thread: the HTTP response of the route, once it has answered
    reqs,           \* per thread: the upstream requests this call has issued, in order
    auth_response,  \* per thread: the answer to its authentication request
    outcome,        \* per thread: "ok"/"fail"/"none" of the user-list and diagnostics requests
    pre,            \* per thread: _stats_cache and previous outcome when the call started
    last_ret,       \* the outcome of the call that finished last
    stats_at        \* when the user list of the stored snapshot was requested

vars == <<clock, ADMIN_TOKEN, _stats_cache, pc, via, now, session_now, cookies,
          users_data, utcnow, ret, http, reqs, auth_response, outcome, pre,
          last_ret, stats_at>>

locals == <<via, now, session_now, cookies, users_data, utcnow, ret, http,
            reqs, auth_response, outcome>>

\* What the properties remember of the past; no action of the program reads it
history == <<pre, last_ret, stats_at>>

NoResponse == [status |-> -1, names |-> {}]
NoOutcome == [list |-> "none", diag |-> "none"]
NoHttp == [code |-> 0, body |-> "none"]
NoPre == [type |-> "None"]

\* _stats_cache as the module creates it
EmptyCache == [stats |-> NoneVal, last_fetch |-> 0,
               session_cookie |-> NoneVal, cookie_expiry |-> 0]

Init ==
    /\ clock = 0
    /\ ADMIN_TOKEN \in BOOLEAN
    /\ _stats_cache = EmptyCache
    /\ pc = [t \in Threads |-> "idle"]
    /\ via = [t \in Threads |-> "none"]
    /\ now = [t \in Threads |-> -1]
    /\ session_now = [t \in Threads |-> -1]
    /\ cookies = [t \in Threads |-> NoneVal]
    /\ users_data = [t \in Threads |-> NoneVal]
    /\ utcnow = [t \in Threads |-> -1]
    /\ ret = [t \in Threads |-> NoReturn]
    /\ http = [t \in Threads |-> NoHttp]
    /\ reqs = [t \in Threads |-> <<>>]
    /\ auth_response = [t \in Threads |-> NoResponse]
    /\ outcome = [t \in Threads |-> NoOutcome]
    /\ pre = [t \in Threads |-> NoPre]
    /\ last_ret = NoReturn
    /\ stats_at = -1

\* An outcome without the snapshot it carries
Outline(r) == IF r.kind = "ok" THEN [kind |-> "ok"] ELSE r

\* The call of thread t ends with outcome r; when it was made by the route
\* the route answers with it
Finish(t, r) ==
    /\ pc' = [pc EXCEPT ![t] = "done"]
    /\ ret' = [ret EXCEPT ![t] = r]
    /\ http' = [http EXCEPT ![t] =
                 IF via[t] = "route" THEN StatsResponse(r) ELSE NoHttp]

\* ------------------------------------------------------------- the clock
\* Time passes: the clock moves on to the reading p (it never goes back)
Tick(p) ==
    /\ p > clock
    /\ clock' = p
    /\ UNCHANGED <<ADMIN_TOKEN, _stats_cache, pc, locals>>

\* A slip: the ADMIN_TOKEN checks left out
NotConfigured_Never == FALSE

\* `if not ADMIN_TOKEN`
NotConfigured == ~ADMIN_TOKEN

\* ---------------------------------------------------------------- stats()
\* GET /stats: answer 500 when ADMIN_TOKEN is not set, else enter
\* get_vaultwarden_stats and read `now`
StatsRoute(t) ==
    /\ pc[t] = "idle"
    /\ via' = [via EXCEPT ![t] = "route"]
    /\ IF NotConfigured
          THEN /\ pc' = [pc EXCEPT ![t] = "done"]
               /\ ret' = [ret EXCEPT ![t] = RouteConfigError]
               /\ http' = [http EXCEPT ![t] = StatsResponse(RouteConfigError)]
               /\ UNCHANGED now
          ELSE /\ pc' = [pc EXCEPT ![t] = "check_stats"]
               /\ now' = [now EXCEPT ![t] = clock]
               /\ UNCHANGED <<ret, http>>
    /\ UNCHANGED <<clock, ADMIN_TOKEN, _stats_cache, session_now, cookies,
                   users_data, utcnow, reqs, auth_response, outcome>>

\* --------------------------------------------------------------- health()
\* GET /health: `return 'OK', 200`
Health(t) ==
    /\ pc[t] = "idle"
    /\ via' = [via EXCEPT ![t] = "health"]
    /\ pc' = [pc EXCEPT ![t] = "done"]
    /\ http' = [http EXCEPT ![t] = [code |-> 200, body |-> "OK"]]
    /\ UNCHANGED <<clock, ADMIN_TOKEN, _stats_cache, now, session_now, cookies,
                   users_data, utcnow, ret, reqs, auth_response, outcome>>

\* ------------------------------------------------- get_vaultwarden_stats()
\* A caller enters get_vaultwarden_stats and reads `now`
GetStats(t) ==
    /\ pc[t] = "idle"
    /\ via' = [via EXCEPT ![t] = "direct"]
    /\ pc' = [pc EXCEPT ![t] = "check_stats"]
    /\ now' = [now EXCEPT ![t] = clock]
    /\ UNCHANGED <<clock, ADMIN_TOKEN, _stats_cache, session_now, cookies,
                   users_data, utcnow, ret, http, reqs, auth_response,
                   outcome>>

\* A slip: a snapshot counts as present only when it reports users
HasStats_Users(stats) == stats.type = "dict" /\ stats.total_users > 0

\* `_stats_cache['stats']` taken as a condition
HasStats(stats) == Truthy(stats)

\* `if _stats_cache['stats'] and ...`: the first operand
CheckStats(t) ==
    /\ pc[t] = "check_stats"
    /\ pc' = [pc EXCEPT ![t] =
                IF HasStats(_stats_cache.stats) THEN "check_fresh" ELSE "session_now"]
    /\ UNCHANGED <<clock, ADMIN_TOKEN, _stats_cache, locals>>

\* A slip: `<=` for `<`
IsFresh_Inclusive(t_now, last_fetch) == t_now - last_fetch <= CACHE_TIMEOUT

\* `... and now - _stats_cache['last_fetch'] < CACHE_TIMEOUT`
IsFresh(t_now, last_fetch) == t_now - last_fetch < CACHE_TIMEOUT

CheckFresh(t) ==
    /\ pc[t] = "check_fresh"
    /\ pc' = [pc EXCEPT ![t] =
                IF IsFresh(now[t], _stats_cache.last_fetch)
                   THEN "return_cached" ELSE "session_now"]
    /\ UNCHANGED <<clock, ADMIN_TOKEN, _stats_cache, locals>>

\* `return _stats_cache['stats']`
ReturnCached(t) ==
    /\ pc[t] = "return_cached"
    /\ Finish(t, Returned(_stats_cache.stats))
    /\ UNCHANGED <<clock, ADMIN_TOKEN, _stats_cache, via, now, session_now,
                   cookies, users_data, utcnow, reqs, auth_response,
                   outcome>>

\* ------------------------------------------------------ get_admin_session()
\* `now = time.time()`
SessionNow(t) ==
    /\ pc[t] = "session_now"
    /\ session_now' = [session_now EXCEPT ![t] = clock]
    /\ pc' = [pc EXCEPT ![t] = "check_session"]
    /\ UNCHANGED <<clock, ADMIN_TOKEN, _stats_cache, via, now, cookies,
                   users_data, utcnow, ret, http, reqs, auth_response,
                   outcome>>

\* `if (_stats_cache['session_cookie'] and ...`: the first operand
CheckSession(t) ==
    /\ pc[t] = "check_session"
    /\ pc' = [pc EXCEPT ![t] =
                IF Truthy(_stats_cache.session_cookie)
                   THEN "check_expiry" ELSE "authenticate"]
    /\ UNCHANGED <<clock, ADMIN_TOKEN, _stats_cache, locals>>

\* A slip: the comparison turned round
IsValid_Inverted(t_now, cookie_expiry) == t_now > cookie_expiry

\* A slip: `<=` for `<`
IsValid_Inclusive(t_now, cookie_expiry) == t_now <= cookie_expiry

\* `... and now < _stats_cache['cookie_expiry']`
IsValid(t_now, cookie_expiry) == t_now < cookie_expiry

CheckExpiry(t) ==
    /\ pc[t] = "check_expiry"
    /\ pc' = [pc EXCEPT ![t] =
                IF IsValid(session_now[t], _stats_cache.cookie_expiry)
                   THEN "return_session" ELSE "authenticate"]
    /\ UNCHANGED <<clock, ADMIN_TOKEN, _stats_cache, locals>>

\* `return _stats_cache['session_cookie']`
ReturnSession(t) ==
    /\ pc[t] = "return_session"
    /\ cookies' = [cookies EXCEPT ![t] = _stats_cache.session_cookie]
    /\ pc' = [pc EXCEPT ![t] = "fetch_users"]
    /\ UNCHANGED <<clock, ADMIN_TOKEN, _stats_cache, via, now, session_now,
                   users_data, utcnow, ret, http, reqs, auth_response,
                   outcome>>

\* A slip: the status of the answer is not looked at
AuthResult_NoStatusCheck(r) ==
    IF r = TransportError
       THEN Raised("RequestException", "connection failed", 0)
    ELSE IF ~Truthy(Jar(r.names, NoneVal)) \/ "VW_ADMIN" \notin r.names
       THEN Raised("Exception", "No VW_ADMIN cookie received from Vaultwarden", 0)
    ELSE NoReturn

\* What get_admin_session does with the answer r of the login request: the
\* exception it raises, or NoReturn when it goes on to cache the session
AuthResult(r) ==
    IF r = TransportError
       THEN Raised("RequestException", "connection failed", 0)
    ELSE IF r.status \notin {200, 302}
       THEN Raised("Exception", "Admin authentication failed", r.status)
    ELSE IF ~Truthy(Jar(r.names, NoneVal)) \/ "VW_ADMIN" \notin r.names
       THEN Raised("Exception", "No VW_ADMIN cookie received from Vaultwarden", 0)
    ELSE NoReturn

\* The ADMIN_TOKEN check, the login request answered by r, and the checks
\* of the answer
Authenticate(t, r) ==
    /\ pc[t] = "authenticate"
    /\ IF NotConfigured
          THEN /\ Finish(t, Raised("Exception", "ADMIN_TOKEN not configured", 0))
               /\ UNCHANGED <<reqs, auth_response, cookies>>
          ELSE  /\ reqs' = [reqs EXCEPT ![t] = Append(@, "auth")]
                /\ auth_response' = [auth_response EXCEPT ![t] = r]
                /\ IF AuthResult(r) # NoReturn
                      THEN /\ Finish(t, AuthResult(r))
                           /\ UNCHANGED cookies
                      ELSE /\ cookies' = [cookies EXCEPT ![t] =
                                  Jar(r.names, [by |-> t, at |-> session_now[t]])]
                           /\ pc' = [pc EXCEPT ![t] = "store_cookie"]
                           /\ UNCHANGED <<ret, http>>
    /\ UNCHANGED <<clock, ADMIN_TOKEN, _stats_cache, via, now, session_now,
                   users_data, utcnow, outcome>>

\* `_stats_cache['session_cookie'] = session_cookie`
StoreCookie(t) ==
    /\ pc[t] = "store_cookie"
    /\ _stats_cache' = [_stats_cache EXCEPT !.session_cookie = cookies[t]]
    /\ pc' = [pc EXCEPT ![t] = "store_expiry"]
    /\ UNCHANGED <<clock, ADMIN_TOKEN, locals>>

\* `_stats_cache['cookie_expiry'] = now + 3600`, and return
StoreExpiry(t) ==
    /\ pc[t] = "store_expiry"
    /\ _stats_cache' = [_stats_cache EXCEPT !.cookie_expiry = session_now[t] + SESSION_TTL]
    /\ pc' = [pc EXCEPT ![t] = "fetch_users"]
    /\ UNCHANGED <<clock, ADMIN_TOKEN, locals>>

\* ----------------------------------- get_vaultwarden_stats(), after the session
\* A slip: the expired snapshot is served when the user list cannot be fetched
OnListFailure_Stale(t, f) ==
    /\ IF Truthy(_stats_cache.stats)
          THEN Finish(t, Returned(_stats_cache.stats))
          ELSE Finish(t, Raised("RequestException", f, 0))
    /\ UNCHANGED _stats_cache

\* A slip: the session is dropped when the user list cannot be fetched
OnListFailure_DropSession(t, f) ==
    /\ Finish(t, Raised("RequestException", f, 0))
    /\ _stats_cache' = [_stats_cache EXCEPT !.session_cookie = NoneVal,
                                            !.cookie_expiry = 0]

\* A slip: the user-list request is issued again when it fails
OnListFailure_Retry(t, f) ==
    UNCHANGED <<pc, ret, http, _stats_cache>>

\* The user-list request has failed with f: `except RequestException: raise`
OnListFailure(t, f) ==
    /\ Finish(t, Raised("RequestException", f, 0))
    /\ UNCHANGED _stats_cache

\* The user-list request answered by a (a failure or a user list), and the
\* loop over the records
FetchUsers(t, a) ==
    /\ pc[t] = "fetch_users"
    /\ reqs' = [reqs EXCEPT ![t] = Append(@, "list")]
    /\ IF a \in ListFailures
          THEN /\ outcome' = [outcome EXCEPT ![t].list = a]
               /\ OnListFailure(t, a)
               /\ UNCHANGED <<users_data, utcnow>>
          ELSE /\ outcome' = [outcome EXCEPT ![t].list = "ok"]
               /\ users_data' = [users_data EXCEPT ![t] = a]
               /\ utcnow' = [utcnow EXCEPT ![t] = clock]
               /\ IF Derive(a, clock).exc # "none"
                     THEN Finish(t, Raised(Derive(a, clock).exc, "unsupported operand", 0))
                     ELSE /\ pc' = [pc EXCEPT ![t] = "fetch_diag"]
                          /\ UNCHANGED <<ret, http>>
               /\ UNCHANGED _stats_cache
    /\ UNCHANGED <<clock, ADMIN_TOKEN, via, now, session_now,
                   cookies, auth_response>>

\* `result = {...}`, built from what the loop over the records has counted
result(t) == Derive(users_data[t], utcnow[t]).result

\* A slip: the diagnostics request outside a try block of its own
FetchDiag_NoTry(t, d) ==
    /\ pc[t] = "fetch_diag"
    /\ reqs' = [reqs EXCEPT ![t] = Append(@, "diag")]
    /\ outcome' = [outcome EXCEPT ![t].diag = d]
    /\ IF d = "exception"
          THEN Finish(t, Raised("RequestException", "diagnostics", 0))
          ELSE /\ pc' = [pc EXCEPT ![t] = "store_stats"]
               /\ UNCHANGED <<ret, http>>
    /\ UNCHANGED <<clock, ADMIN_TOKEN, _stats_cache, via, now, session_now,
                   cookies, users_data, utcnow, auth_response>>

\* The diagnostics request, answered by d, inside its own try block
FetchDiag(t, d) ==
    /\ pc[t] = "fetch_diag"
    /\ reqs' = [reqs EXCEPT ![t] = Append(@, "diag")]
    /\ outcome' = [outcome EXCEPT ![t].diag = d]
    /\ pc' = [pc EXCEPT ![t] = "store_stats"]
    /\ UNCHANGED <<clock, ADMIN_TOKEN, _stats_cache, via, now, session_now,
                   cookies, users_data, utcnow, ret, http, auth_response>>

\* `_stats_cache['stats'] = result`
StoreStats(t) ==
    /\ pc[t] = "store_stats"
    /\ _stats_cache' = [_stats_cache EXCEPT !.stats = result(t)]
    /\ pc' = [pc EXCEPT ![t] = "store_fetch"]
    /\ UNCHANGED <<clock, ADMIN_TOKEN, locals>>

\* `_stats_cache['last_fetch'] = now`, and `return result`
StoreLastFetch(t) ==
    /\ pc[t] = "store_fetch"
    /\ _stats_cache' = [_stats_cache EXCEPT !.last_fetch = now[t]]
    /\ Finish(t, Returned(result(t)))
    /\ UNCHANGED <<clock, ADMIN_TOKEN, via, now, session_now, cookies,
                   users_data, utcnow, reqs, auth_response, outcome>>

\* The answer has been handed to the caller; the thread is free again
Done(t) ==
    /\ pc[t] = "done"
    /\ pc' = [pc EXCEPT ![t] = "idle"]
    /\ via' = [via EXCEPT ![t] = "none"]
    /\ now' = [now EXCEPT ![t] = -1]
    /\ session_now' = [session_now EXCEPT ![t] = -1]
    /\ cookies' = [cookies EXCEPT ![t] = NoneVal]
    /\ users_data' = [users_data EXCEPT ![t] = NoneVal]
    /\ utcnow' = [utcnow EXCEPT ![t] = -1]
    /\ ret' = [ret EXCEPT ![t] = NoReturn]
    /\ http' = [http EXCEPT ![t] = NoHttp]
    /\ reqs' = [reqs EXCEPT ![t] = <<>>]
    /\ auth_response' = [auth_response EXCEPT ![t] = NoResponse]
    /\ outcome' = [outcome EXCEPT ![t] = NoOutcome]
    /\ UNCHANGED <<clock, ADMIN_TOKEN, _stats_cache>>

\* ---------------------------------------------------------- specifications
\* The history of a step: a call that starts remembers the cache it found
\* and how the call before it ended; a call that ends becomes the call before
Record ==
    /\ pre' = [t \in Threads |->
                IF pc[t] = "idle" /\ pc'[t] # "idle"
                   THEN [type |-> "pre", cache |-> _stats_cache, last |-> last_ret]
                ELSE IF pc'[t] = "idle" THEN NoPre
                ELSE pre[t]]
    /\ last_ret' = IF \E t \in Threads :
                           pc[t] # "done" /\ pc'[t] = "done" /\ via'[t] # "health"
                      THEN Outline(ret'[CHOOSE t \in Threads :
                                            pc[t] # "done" /\ pc'[t] = "done"])
                   ELSE last_ret
    /\ stats_at' = IF \E t \in Threads : pc[t] = "store_stats" /\ pc'[t] = "store_fetch"
                      THEN utcnow[CHOOSE t \in Threads :
                                     pc[t] = "store_stats" /\ pc'[t] = "store_fetch"]
                   ELSE stats_at

\* The history of a step of concurrent threads: only the origin of the
\* stored snapshot is remembered
RecordOrigin(t) ==
    /\ stats_at' = utcnow[t]
    /\ UNCHANGED <<pre, last_ret>>

\* Requests to GET /stats served by threads that run concurrently, during
\* the first readings of the clock, with an upstream that gives one answer
\* of each kind
ConcTimePoints == {p \in TimePoints : p <= MaxConcTime}
ConcAuthResponses ==
    {[status |-> 302, names |-> {"VW_ADMIN"}], [status |-> 403, names |-> {}]}
ConcUserAnswers == {"transport", <<>>, <<uActive>>}
ConcDiagAnswers == {"ok", "exception"}

Next ==
    \/ \E p \in ConcTimePoints : Tick(p) /\ UNCHANGED history
    \/ \E t \in Threads :
        \/ Health(t) /\ UNCHANGED history
        \/ StatsRoute(t) /\ UNCHANGED history
        \/ CheckStats(t) /\ UNCHANGED history
        \/ CheckFresh(t) /\ UNCHANGED history
        \/ ReturnCached(t) /\ UNCHANGED history
        \/ SessionNow(t) /\ UNCHANGED history
        \/ CheckSession(t) /\ UNCHANGED history
        \/ CheckExpiry(t) /\ UNCHANGED history
        \/ ReturnSession(t) /\ UNCHANGED history
        \/ \E r \in ConcAuthResponses : Authenticate(t, r) /\ UNCHANGED history
        \/ StoreCookie(t) /\ UNCHANGED history
        \/ StoreExpiry(t) /\ UNCHANGED history
        \/ \E a \in ConcUserAnswers : FetchUsers(t, a) /\ UNCHANGED history
        \/ \E d \in ConcDiagAnswers : FetchDiag(t, d) /\ UNCHANGED history
        \/ StoreStats(t) /\ RecordOrigin(t)
        \/ StoreLastFetch(t) /\ UNCHANGED history
        \/ Done(t) /\ UNCHANGED history

Spec == Init /\ [][Next]_vars

\* Calls made one after the other, through the route or directly, over all
\* the readings of the clock and all the answers of the upstream
SeqNext ==
    \/ \E p \in TimePoints : Tick(p) /\ Record
    \/ Health(1) /\ Record
    \/ StatsRoute(1) /\ Record
    \/ GetStats(1) /\ Record
    \/ CheckStats(1) /\ Record
    \/ CheckFresh(1) /\ Record
    \/ ReturnCached(1) /\ Record
    \/ SessionNow(1) /\ Record
    \/ CheckSession(1) /\ Record
    \/ CheckExpiry(1) /\ Record
    \/ ReturnSession(1) /\ Record
    \/ \E r \in AuthResponses : Authenticate(1, r) /\ Record
    \/ StoreCookie(1) /\ Record
    \/ StoreExpiry(1) /\ Record
    \/ \E a \in ListFailures \cup UserLists : FetchUsers(1, a) /\ Record
    \/ \E d \in DiagAnswers : FetchDiag(1, d) /\ Record
    \/ StoreStats(1) /\ Record
    \/ StoreLastFetch(1) /\ Record
    \/ Done(1) /\ Record

SeqSpec == Init /\ [][SeqNext]_vars

\* One call of get_vaultwarden_stats that logs in, fetches any of the user
\* lists of the derivation at any of the first readings of the clock, and
\* stores the statistics
DeriveNext ==
    \/ \E p \in ConcTimePoints : Tick(p) /\ UNCHANGED history
    \/ GetStats(1) /\ UNCHANGED history
    \/ CheckStats(1) /\ UNCHANGED history
    \/ SessionNow(1) /\ UNCHANGED history
    \/ CheckSession(1) /\ UNCHANGED history
    \/ \E r \in ConcAuthResponses : Authenticate(1, r) /\ UNCHANGED history
    \/ StoreCookie(1) /\ UNCHANGED history
    \/ StoreExpiry(1) /\ UNCHANGED history
    \/ \E a \in DeriveUserLists : FetchUsers(1, a) /\ UNCHANGED history
    \/ \E d \in ConcDiagAnswers : FetchDiag(1, d) /\ UNCHANGED history
    \/ StoreStats(1) /\ UNCHANGED history
    \/ StoreLastFetch(1) /\ UNCHANGED history

DeriveSpec == Init /\ [][DeriveNext]_vars

\* ------------------------------------------------------------ properties
Range(q) == {q[i] : i \in DOMAIN q}
Count(q, x) == Cardinality({i \in DOMAIN q : q[i] = x})
Last(q) == q[Len(q)]

\* The call of get_vaultwarden_stats or GET /stats of thread t has ended and
\* its start was recorded
Ended(t) == pc[t] = "done" /\ pre[t] # NoPre /\ via[t] # "health"

\* C1: once a snapshot is stored, a call made while now - last_fetch <
\* CACHE_TIMEOUT returns exactly the stored snapshot, issues no upstream
\* request and leaves the cache as it found it, whatever the snapshot holds.
C1_CachedSnapshotServed ==
    \A t \in Threads :
        ( /\ Ended(t)
          /\ pre[t].cache.stats # NoneVal
          /\ now[t] - pre[t].cache.last_fetch < CACHE_TIMEOUT )
        => /\ ret[t] = Returned(pre[t].cache.stats)
           /\ reqs[t] = <<>>
           /\ _stats_cache = pre[t].cache

\* A later call is served the snapshot of an empty user list from the cache
C1_Witness ==
    /\ Ended(1)
    /\ pre[1].cache.stats # NoneVal
    /\ pre[1].cache.stats.total_users = 0
    /\ now[1] > pre[1].cache.last_fetch
    /\ ret[1] = Returned(pre[1].cache.stats)
    /\ reqs[1] = <<>>

\* C2: calls in progress at the same time have issued, together, at most
\* one authentication request and at most one user-list request.
C2_AtMostOneUpstreamCall ==
    /\ Cardinality({t \in Threads :
            pc[t] \notin {"idle", "done"} /\ "auth" \in Range(reqs[t])}) <= 1
    /\ Cardinality({t \in Threads :
            pc[t] \notin {"idle", "done"} /\ "list" \in Range(reqs[t])}) <= 1

\* C3: a call that finds a credential stored and reads a time before its
\* expiry issues no authentication request, whatever calls came before it.
C3_NoSecondAuthentication ==
    \A t \in Threads :
        ( /\ Ended(t)
          /\ pre[t].cache.session_cookie # NoneVal
          /\ session_now[t] < pre[t].cache.cookie_expiry )
        => "auth" \notin Range(reqs[t])

\* After a failed user-list fetch and the end of the statistics window, a
\* call reuses the stored credential for its user-list request
C3_Witness ==
    /\ Ended(1)
    /\ pre[1].cache.session_cookie # NoneVal
    /\ pre[1].last.kind = "raise"
    /\ session_now[1] >= CACHE_TIMEOUT
    /\ session_now[1] < pre[1].cache.cookie_expiry
    /\ reqs[1] = <<"list", "diag">>

\* C4: a call that finds a snapshot whose window has elapsed and a
\* credential that is still valid issues one user-list request, no
\* authentication request, and leaves the stored credential alone.
C4_ExpiredStatsOneFetch ==
    \A t \in Threads :
        ( /\ Ended(t)
          /\ pre[t].cache.stats # NoneVal
          /\ now[t] - pre[t].cache.last_fetch >= CACHE_TIMEOUT
          /\ pre[t].cache.session_cookie # NoneVal
          /\ session_now[t] < pre[t].cache.cookie_expiry )
        => /\ Count(reqs[t], "list") = 1
           /\ Count(reqs[t], "auth") = 0
           /\ reqs[t][1] = "list"
           /\ _stats_cache.session_cookie = pre[t].cache.session_cookie
           /\ _stats_cache.cookie_expiry = pre[t].cache.cookie_expiry

\* Exactly CACHE_TIMEOUT after the snapshot was stored, a call refetches
\* with the cached credential and stores a new snapshot
C4_Witness ==
    /\ Ended(1)
    /\ pre[1].cache.stats # NoneVal
    /\ now[1] - pre[1].cache.last_fetch = CACHE_TIMEOUT
    /\ session_now[1] < pre[1].cache.cookie_expiry
    /\ reqs[1] = <<"list", "diag">>
    /\ ret[1].kind = "ok"
    /\ _stats_cache.last_fetch = now[1]

\* The places of a call at which get_admin_session has returned or raised
AfterSession == {"fetch_users", "fetch_diag", "store_stats", "store_fetch", "done"}

\* C5: with ADMIN_TOKEN set, get_admin_session issues one authentication
\* request when no credential is stored or now >= cookie_expiry, none when
\* a credential is stored and now < cookie_expiry; when it returns, the
\* stored credential is the one it returns and is valid at its `now`.
C5_OneAuthPerSessionMiss ==
    \A t \in Threads :
        ( /\ ADMIN_TOKEN
          /\ pre[t] # NoPre
          /\ session_now[t] # -1
          /\ pc[t] \in AfterSession )
        => /\ Count(reqs[t], "auth") =
                IF /\ pre[t].cache.session_cookie # NoneVal
                   /\ session_now[t] < pre[t].cache.cookie_expiry
                   THEN 0 ELSE 1
           /\ pc[t] = "fetch_users" =>
                /\ cookies[t] = _stats_cache.session_cookie
                /\ "VW_ADMIN" \in cookies[t].names
                /\ session_now[t] < _stats_cache.cookie_expiry

\* A call reads the time at which the stored credential expires, logs in
\* again and holds the new credential
C5_Witness ==
    /\ pc[1] = "fetch_users"
    /\ pre[1] # NoPre
    /\ pre[1].cache.session_cookie # NoneVal
    /\ session_now[1] = pre[1].cache.cookie_expiry
    /\ reqs[1] = <<"auth">>
    /\ _stats_cache.session_cookie # pre[1].cache.session_cookie
    /\ _stats_cache.cookie_expiry = session_now[1] + SESSION_TTL

\* The user-list request of the call of thread t has failed
ListFailed(t) == outcome[t].list \in ListFailures

\* The call before the call of thread t ended with a failed user-list request
PrevListFailed(t) ==
    pre[t].last.kind = "raise" /\ pre[t].last.msg \in ListFailures

\* C6: when the user-list request fails the call raises the request's
\* error, never returns a snapshot, and leaves stats and last_fetch as they
\* were; the call after it is a miss again (it issues a request).
C6_FetchErrorNoStaleFallback ==
    \A t \in Threads :
        /\ (Ended(t) /\ ListFailed(t)) =>
                /\ ret[t] = Raised("RequestException", outcome[t].list, 0)
                /\ _stats_cache.stats = pre[t].cache.stats
                /\ _stats_cache.last_fetch = pre[t].cache.last_fetch
        /\ (Ended(t) /\ PrevListFailed(t)) => reqs[t] # <<>>

\* The user-list request fails while an expired snapshot is stored
C6_Witness ==
    /\ Ended(1)
    /\ ListFailed(1)
    /\ pre[1].cache.stats # NoneVal
    /\ ret[1].kind = "raise"
    /\ _stats_cache.stats = pre[1].cache.stats

\* C7: when the user-list request fails, the credential the call used stays
\* stored with its expiry, and the next call made before that expiry uses
\* it without an authentication request.
C7_CredentialSurvivesFetchError ==
    \A t \in Threads :
        /\ (Ended(t) /\ ListFailed(t)) =>
                /\ cookies[t] # NoneVal
                /\ _stats_cache.session_cookie = cookies[t]
                /\ _stats_cache.cookie_expiry =
                        IF "auth" \in Range(reqs[t])
                           THEN session_now[t] + SESSION_TTL
                           ELSE pre[t].cache.cookie_expiry
                /\ "auth" \notin Range(reqs[t]) =>
                        _stats_cache.session_cookie = pre[t].cache.session_cookie
        /\ ( /\ Ended(t)
             /\ PrevListFailed(t)
             /\ session_now[t] < pre[t].cache.cookie_expiry ) =>
                /\ "auth" \notin Range(reqs[t])
                /\ "list" \in Range(reqs[t])
                /\ cookies[t] = pre[t].cache.session_cookie

\* A call logs in, fails to fetch the user list, and the next call fetches
\* it with the same credential
C7_Witness ==
    /\ Ended(1)
    /\ PrevListFailed(1)
    /\ pre[1].cache.stats = NoneVal
    /\ reqs[1] = <<"list", "diag">>
    /\ cookies[1] = pre[1].cache.session_cookie
    /\ ret[1].kind = "ok"

\* The login request was answered, and the answer is no session
Rejected(r) ==
    /\ r # NoResponse
    /\ r # TransportError
    /\ r.status \notin {200, 302} \/ "VW_ADMIN" \notin r.names

\* The call before the call of thread t ended with a rejected login
PrevAuthError(t) ==
    /\ pre[t].last.kind = "raise"
    /\ pre[t].last.msg \in {"Admin authentication failed",
                            "No VW_ADMIN cookie received from Vaultwarden"}

\* C8: a login answer with a status outside {200, 302} raises an error that
\* carries the status, one with status 200 or 302 and no VW_ADMIN cookie
\* raises the missing-cookie error; session_cookie and cookie_expiry keep
\* their values, no user-list request follows, and the next call starts
\* with an authentication request.
C8_AuthErrorStoresNothing ==
    \A t \in Threads :
        /\ (Ended(t) /\ Rejected(auth_response[t])) =>
                /\ ret[t] =
                     IF auth_response[t].status \notin {200, 302}
                        THEN Raised("Exception", "Admin authentication failed",
                                    auth_response[t].status)
                        ELSE Raised("Exception",
                                    "No VW_ADMIN cookie received from Vaultwarden", 0)
                /\ _stats_cache = pre[t].cache
                /\ "list" \notin Range(reqs[t])
        /\ (Ended(t) /\ PrevAuthError(t)) =>
                /\ reqs[t] # <<>>
                /\ reqs[t][1] = "auth"

\* After a rejected login the next call logs in again and is answered 302
\* without the cookie, while an expired credential stays stored
C8_Witness ==
    /\ Ended(1)
    /\ PrevAuthError(1)
    /\ auth_response[1] = [status |-> 302, names |-> {"other"}]
    /\ ret[1].msg = "No VW_ADMIN cookie received from Vaultwarden"
    /\ pre[1].cache.session_cookie # NoneVal
    /\ _stats_cache = pre[1].cache

\* C9: without ADMIN_TOKEN no request is ever issued, the cache stays as
\* created, and every call ends with the configuration error of its entry.
C9_NoSecretNoNetwork ==
    ~ADMIN_TOKEN =>
        /\ _stats_cache = EmptyCache
        /\ \A t \in Threads :
            /\ reqs[t] = <<>>
            /\ (pc[t] = "done" /\ via[t] # "health") =>
                ret[t] = IF via[t] = "route"
                            THEN RouteConfigError
                            ELSE Raised("Exception", "ADMIN_TOKEN not configured", 0)

\* A second call of get_vaultwarden_stats without ADMIN_TOKEN raises the
\* same error as the first
C9_Witness ==
    /\ ~ADMIN_TOKEN
    /\ Ended(1)
    /\ via[1] = "direct"
    /\ pre[1].last = Raised("Exception", "ADMIN_TOKEN not configured", 0)
    /\ ret[1] = pre[1].last

\* C10: once the user list is fetched, the outcome of the call is decided
\* by the list alone: the snapshot derived from it is returned and stored
\* with last_fetch = now, whatever the diagnostics request does.
C10_DiagnosticsNeverFails ==
    \A t \in Threads :
        (Ended(t) /\ outcome[t].list = "ok") =>
            LET d == Derive(users_data[t], utcnow[t])
            IN  IF d.exc = "none"
                   THEN /\ outcome[t].diag # "none"
                        /\ ret[t] = Returned(d.result)
                        /\ _stats_cache.stats = d.result
                        /\ _stats_cache.last_fetch = now[t]
                   ELSE ret[t].kind = "raise" /\ ret[t].exc = d.exc

\* The diagnostics request fails and the snapshot is returned and stored
C10_Witness ==
    /\ Ended(1)
    /\ outcome[1].diag = "exception"
    /\ ret[1].kind = "ok"
    /\ ret[1].value.total_users = 2
    /\ _stats_cache.stats = ret[1].value

\* The call of thread t has fetched a user list and returned a snapshot
Derived(t) == pc[t] = "done" /\ outcome[t].list = "ok" /\ ret[t].kind = "ok"

\* The last-active value of a record: lastActive unless it is missing or
\* empty, and then _LastActive
LastActiveOf(user) ==
    IF user.lastActive # Absent /\ user.lastActive # EmptyText
       THEN user.lastActive ELSE user._LastActive

\* The texts the program reads as a time: date, blank, time, and nothing
\* more or the offset " +08"
Parsable(v) ==
    /\ v.type = "str"
    /\ v.good
    /\ v.sep = " "
    /\ v.suffix \in {SufNone, SufPlus08}

\* The records of a list whose last-active value reads as a time after
\* `since`
ActiveRecords(users, since) ==
    {i \in DOMAIN users :
        Parsable(LastActiveOf(users[i])) /\ LastActiveOf(users[i]).wall > since}

\* C11: the snapshot of a user list has total_users = the number of records
\* and active_users = the number of records whose last-active value reads
\* as a time strictly after now - 30 days; records without such a value
\* count in total_users only and the records after them are still counted.
C11_UserCounts ==
    \A t \in Threads :
        Derived(t) =>
            /\ ret[t].value.total_users = Len(users_data[t])
            /\ ret[t].value.active_users =
                 Cardinality(ActiveRecords(users_data[t], utcnow[t] - THIRTY_DAYS))

\* A record whose lastActive is no date is followed by one that is active
C11_Witness ==
    /\ Derived(1)
    /\ Len(users_data[1]) = 2
    /\ users_data[1][1].lastActive = tsNoDate
    /\ users_data[1][1]._LastActive = Absent
    /\ users_data[1][2] = uEdge
    /\ ret[1].value.total_users = 2
    /\ ret[1].value.active_users = 1

\* No record of the list carries an item count under any of its names
NoItemCount(users) ==
    \A i \in DOMAIN users :
        /\ users[i].CipherCount = Absent
        /\ users[i].cipher_count = Absent
        /\ users[i].items_count = Absent

ItemFields == {"total_items", "logins", "notes", "cards", "identities"}

\* C12: when no record of the user list carries an item count (the empty
\* list included) the returned snapshot has no total_items and no
\* item-type fields, and the snapshot of the empty list is exactly
\* total_users = 0, active_users = 0.
C12_ItemFieldsOmitted ==
    \A t \in Threads :
        (Derived(t) /\ NoItemCount(users_data[t])) =>
            /\ DOMAIN ret[t].value \cap ItemFields = {}
            /\ users_data[t] = <<>> =>
                 /\ DOMAIN ret[t].value \ {"type"} = {"total_users", "active_users"}
                 /\ ret[t].value.total_users = 0
                 /\ ret[t].value.active_users = 0

\* The offset a suffix names, in seconds ("Z" and no suffix: none)
OffsetOf(suffix) == IF suffix = SufPlus08 THEN 8 * 3600 ELSE 0

\* The instant a timestamp text denotes: its wall-clock reading brought
\* back by its offset
InstantOf(v) == v.wall - OffsetOf(v.suffix)

\* The two textual shapes: ISO-8601 with "T" and a Z or an offset, and the
\* space-delimited form with a trailing offset
SupportedShape(v) ==
    /\ v.type = "str"
    /\ v.good
    /\ \/ v.sep = "T" /\ v.suffix \in {SufZ, SufPlus08}
       \/ v.sep = " " /\ v.suffix = SufPlus08

\* C13: a record whose last-active text, in either shape, denotes the
\* instant 5 days before now is counted in active_users, and one whose text
\* denotes an instant more than 30 days before now is not.
C13_EitherShapeCounted ==
    \A t \in Threads :
        (/\ Derived(t)
         /\ Len(users_data[t]) = 1
         /\ SupportedShape(LastActiveOf(users_data[t][1]))) =>
            LET instant == InstantOf(LastActiveOf(users_data[t][1]))
            IN  /\ instant = utcnow[t] - 5 * 86400 =>
                     ret[t].value.active_users = 1
                /\ instant < utcnow[t] - THIRTY_DAYS =>
                     ret[t].value.active_users = 0

\* C14: for every user list fetched, whatever its records hold, the call
\* returns a snapshot that covers all records and stores it.
C14_MalformedNeverAborts ==
    \A t \in Threads :
        (pc[t] = "done" /\ outcome[t].list = "ok") =>
            /\ ret[t].kind = "ok"
            /\ ret[t].value.total_users = Len(users_data[t])
            /\ _stats_cache.stats = ret[t].value

\* A field holds a number other than 0
NonZero(v) == v.type = "int" /\ v.val # 0

\* The item count of a record by priority: CipherCount, then cipher_count,
\* then items_count, the first that is not 0; 0 when there is none
PriorityCount(user) ==
    IF NonZero(user.CipherCount) THEN user.CipherCount.val
    ELSE IF NonZero(user.cipher_count) THEN user.cipher_count.val
    ELSE IF NonZero(user.items_count) THEN user.items_count.val
    ELSE 0

RECURSIVE SumCounts(_)
SumCounts(users) ==
    IF users = <<>> THEN 0
    ELSE PriorityCount(Head(users)) + SumCounts(Tail(users))

\* C20: the snapshot a call returns is determined by the user list and the
\* time of the derivation alone: total_items is the sum over the records of
\* the first non-zero value among CipherCount, cipher_count, items_count,
\* and active_users counts by lastActive when it is non-empty and by
\* _LastActive otherwise.
C20_FieldPriority ==
    \A t \in Threads :
        Derived(t) =>
            ret[t].value =
                [type |-> "dict",
                 total_users |-> Len(users_data[t]),
                 active_users |->
                     Cardinality(ActiveRecords(users_data[t], utcnow[t] - THIRTY_DAYS)),
                 total_items |-> SumCounts(users_data[t]),
                 logins |-> 0, notes |-> 0, cards |-> 0, identities |-> 0]

\* A record with all three counts (0, 1, 3) and an empty lastActive beside
\* a recent _LastActive: it adds 1 item and is active
C20_Witness ==
    /\ Derived(1)
    /\ users_data[1] = <<User(EmptyText, tsRecent, IntV(0), IntV(1), IntV(3))>>
    /\ ret[1].value.total_items = 1
    /\ ret[1].value.active_users = 1

\* The GET /health request of thread t has been answered
HealthEnded(t) == pc[t] = "done" /\ pre[t] # NoPre /\ via[t] = "health"

\* C15: GET /stats answers 200 with the snapshot exactly when
\* get_vaultwarden_stats returned one, and 500 with the error message when
\* ADMIN_TOKEN is missing, the login fails, the user list cannot be fetched
\* or anything else is raised; GET /health answers 200 "OK" in every state,
\* issues no upstream request and leaves the cache as it was.
C15_RouteStatus ==
    \A t \in Threads :
        /\ (Ended(t) /\ via[t] = "route") =>
              /\ http[t].code \in {200, 500}
              /\ http[t].code = 200 <=> ret[t].kind = "ok"
              /\ ret[t].kind = "ok" => http[t].body = ret[t].value
              /\ ret[t].kind # "ok" => http[t].body = ret[t].msg
              /\ ( \/ NotConfigured
                   \/ Rejected(auth_response[t])
                   \/ outcome[t].list \in ListFailures
                   \/ ret[t].kind = "raise" ) => http[t].code = 500
        /\ HealthEnded(t) =>
              /\ http[t] = [code |-> 200, body |-> "OK"]
              /\ reqs[t] = <<>>
              /\ _stats_cache = pre[t].cache

\* GET /stats has answered 500 after the user-list request failed, with a
\* session and an earlier snapshot in the cache
C15_Witness ==
    /\ Ended(1)
    /\ via[1] = "route"
    /\ outcome[1].list = "transport"
    /\ _stats_cache.stats # NoneVal
    /\ http[1].code = 500

\* The orders in which one call may have issued its requests so far
RequestPrefixes ==
    {<<>>, <<"auth">>, <<"auth", "list">>, <<"auth", "list", "diag">>,
     <<"list">>, <<"list", "diag">>}

\* The cache a call found holds a session that is valid at time t_now
SessionHit(cache, t_now) ==
    cache.session_cookie # NoneVal /\ t_now < cache.cookie_expiry

\* C17: the requests one call issues are, in order, at most one
\* authentication (only when the cached session is missing or expired), at
\* most one user-list request (only with a credential in hand) and at most
\* one diagnostics request (only after the user list was fetched); a request
\* that fails ends the call without being issued again, and the call after
\* it issues its requests anew.
C17_RequestOrder ==
    \A t \in Threads :
        /\ reqs[t] \in RequestPrefixes
        /\ "list" \in Range(reqs[t]) =>
              /\ cookies[t].type = "jar"
              /\ "VW_ADMIN" \in cookies[t].names
        /\ "diag" \in Range(reqs[t]) => outcome[t].list = "ok"
        /\ ("auth" \in Range(reqs[t]) /\ pre[t] # NoPre) =>
              ~SessionHit(pre[t].cache, session_now[t])
        /\ ( \/ Rejected(auth_response[t])
             \/ auth_response[t] = TransportError
             \/ ListFailed(t) ) =>
              /\ pc[t] = "done"
              /\ ret[t].kind = "raise"
              /\ Len(reqs[t]) = Count(reqs[t], "auth") + Count(reqs[t], "list")
              /\ Last(reqs[t]) = IF ListFailed(t) THEN "list" ELSE "auth"

\* The call after one whose user-list request failed has used the cached
\* session and issued the user-list and diagnostics requests itself
C17_Witness ==
    /\ Ended(1)
    /\ PrevListFailed(1)
    /\ reqs[1] = <<"list", "diag">>

\* C16: in every interleaving, whenever no thread is between the two
\* stores of a session, the stored cookie_expiry is the `now` of the
\* authentication that produced the stored cookie plus 3600.
C16_CookieExpiryPaired ==
    ( /\ \A t \in Threads : pc[t] # "store_expiry"
      /\ _stats_cache.session_cookie # NoneVal ) =>
        _stats_cache.cookie_expiry = _stats_cache.session_cookie.tok.at + SESSION_TTL

\* C18: in every interleaving, a call about to return the stored snapshot
\* as a cache hit at its time `now` returns a snapshot whose user list was
\* requested later than now - CACHE_TIMEOUT.
C18_CacheHitWithinWindow ==
    \A t \in Threads :
        pc[t] = "return_cached" => stats_at > now[t] - CACHE_TIMEOUT

\* C19: in every interleaving, with a clock that never goes back, no step
\* lowers the stored last_fetch.
C19_LastFetchMonotone ==
    [][_stats_cache'.last_fetch >= _stats_cache.last_fetch]_vars

====
